---- MODULE Spec2Model ----
(***************************************************************************)
(* State-synchronisation and command-dispatch layer of the two daemons of  *)
(* the repository:                                                         *)
(*   barista-daemon/src/main.rs  (RwLock<State>, per-connection channel,   *)
(*                                poller update_servers, hub               *)
(*                                update_clients)                          *)
(*   mined/src/main.rs           (Mutex<State>, one hub task owning the    *)
(*                                websocket sinks, no poller)              *)
(* The variable `variant` selects the daemon; it is fixed by Init.         *)
(*                                                                         *)
(* A Rust panic unwinds the task it happens in (tokio catches it); a       *)
(* panic raised while a write guard / mutex guard is held poisons the      *)
(* lock.  `mod server` (Server::start, Server::stop,                       *)
(* Server::update_status) and the command library are not part of the      *)
(* available sources; they are modelled from the specification text.       *)
(*                                                                         *)
(* No lock guard lives across an .await in either daemon.  A handler       *)
(* serves a frame in two steps: serve_ws (run_command under the lock), and *)
(* then the send of the response, for which barista-daemon takes no lock   *)
(* and mined takes the mutex a second time.  The hub of mined sends to one *)
(* sink per step (c.send(..).await).  The poller's critical section, which *)
(* queries every server, is two steps (update_servers_lock,                *)
(* update_servers) with `lock` held in between.                            *)
(***************************************************************************)
EXTENDS Naturals, Sequences, FiniteSets

VARIABLES
    variant,   \* "barista" | "mined"
    servers,   \* State.servers: Vec<Server>; servers[i+1] is the server of index i
    ext,       \* status of the external process of each server (collaborator)
    poisoned,  \* the lock around State is poisoned
    clients,   \* barista: State.clients; mined: the hub task's local `clients`
    queue,     \* the unbounded channel read by the hub task
    chan,      \* barista: per-connection unbounded channel (tx, rx)
    fwd,       \* barista: the spawned rx.forward(ws_tx) task of a connection
    conn,      \* position of each connection's handle_ws task
    sock,      \* whether a write to the connection's websocket sink succeeds
    pending,   \* per connection: the command serve_ws has run and the response
               \* the handler has not sent yet
    hubpos,    \* mined: position in `clients` of the sink the hub task sends
               \* to next (0: the task waits in rx.recv())
    got,       \* the last message the observer of a connection received
    rcvd,      \* barista: the poller events written to a connection's socket,
               \* in order (history)
    seen,      \* barista: the poller events put on the hub queue since the
               \* connection registered, with those that were waiting in
               \* the queue when it registered (history)
    hub,       \* the hub task: "running" | "panicked"
    poller,    \* barista: the update_servers task: "running" (at its timer) |
               \* "locked" (inside its critical section) | "panicked"
    lock,      \* the task holding the lock around State for more than one
               \* step: "free" | "poller"
    step,      \* the last operation performed and its result
    frames     \* number of inbound frames handled so far

vars == <<variant, servers, ext, poisoned, clients, queue, chan, fwd, conn,
          sock, pending, hubpos, got, rcvd, seen, hub, poller, lock, step, frames>>

----------------------------------------------------------------------------
\* Bounds of the model.

\* number of servers in the configuration (config.servers.len())
N == 3
\* number of connections ever accepted
MaxConns == 2
\* number of inbound frames handled in one behaviour, over all connections
MaxFrames == 2

Conns == 1..MaxConns
ServerIds == 0..(N - 1)
\* ids a decoded command can carry (usize): the valid ones and two invalid ones
OutOfRangeIds == {N, N + 2}
CmdIds == ServerIds \cup OutOfRangeIds

Statuses == {"Stopped", "Starting", "Running", "Stopping"}

----------------------------------------------------------------------------
\* Values.

\* ServerData::new(id, cfg): the configuration is opaque and left out
ServerData(id, status) == [id |-> id, status |-> status]

\* Command
GetServers == [type |-> "GetServers", id |-> 0]
StartServer(id) == [type |-> "StartServer", id |-> id]
StopServer(id) == [type |-> "StopServer", id |-> id]
Commands == {GetServers} \cup {StartServer(i) : i \in CmdIds}
                         \cup {StopServer(i) : i \in CmdIds}

\* CommandResponse; `origin` is the connection whose command produced the
\* response (0: the poller).  `data` is a sequence of ServerData.
UpdateServersMsg(list, o) ==
    [type |-> "UpdateServers", id |-> 0, data |-> list, err |-> "", origin |-> o]
UpdateServerMsg(id, d, o) ==
    [type |-> "UpdateServer", id |-> id, data |-> <<d>>, err |-> "", origin |-> o]
ErrorMsg(e, o) ==
    [type |-> "Error", id |-> 0, data |-> <<>>, err |-> e, origin |-> o]
NoMsg == [type |-> "None", id |-> 0, data |-> <<>>, err |-> "", origin |-> 0]

\* RuntimeMsg of mined
NewClient(c) ==
    [type |-> "NewClient", id |-> c, data |-> <<>>, err |-> "", origin |-> c]

\* inbound websocket frames: a text frame, a binary frame that does not decode,
\* a binary frame carrying a command
Frames == {[kind |-> "text", cmd |-> GetServers],
           [kind |-> "garbage", cmd |-> GetServers]}
          \cup {[kind |-> "cmd", cmd |-> k] : k \in Commands}

\* a handler between serve_ws and the send of its response
NoPending == [cmd |-> GetServers, res |-> NoMsg]
Pending(cmd, res) == [cmd |-> cmd, res |-> res]

NoStep == [op |-> "init", c |-> 0, cmd |-> GetServers, res |-> NoMsg,
           panic |-> FALSE]
Step(op, c, cmd, res, panic) ==
    [op |-> op, c |-> c, cmd |-> cmd, res |-> res, panic |-> panic]

----------------------------------------------------------------------------
\* State::new numbering the servers from 1
StateNew_from_one == [i \in 1..N |-> ServerData(i, "Stopped")]

\* State::new: one Server per configured entry, id = position.
StateNew == [i \in 1..N |-> ServerData(i - 1, "Stopped")]

\* lock.servers[id]: a raw index; out of bounds panics
InBounds(srv, id) == id + 1 \in DOMAIN srv
At(srv, id) == srv[id + 1]
Put(srv, id, d) == [srv EXCEPT ![id + 1] = d]

\* lock.servers.iter().map(|s| s.data.clone()).collect()
Snapshot(srv) == srv

----------------------------------------------------------------------------
\* mod server and the resource-lifecycle collaborator (from the specification).

\* Server::start: a no-op on a Running server, else the status becomes Starting
ServerStart(d) ==
    IF d.status = "Running" THEN d ELSE [d EXCEPT !.status = "Starting"]

\* Server::stop: a no-op on a Stopped server, else the status becomes Stopping
ServerStop(d) ==
    IF d.status = "Stopped" THEN d ELSE [d EXCEPT !.status = "Stopping"]

\* begin_start(id) / begin_stop(id) on the external process
BeginStart(e) == IF e \in {"Running", "Starting"} THEN e ELSE "Starting"
BeginStop(e) == IF e \in {"Stopped", "Stopping"} THEN e ELSE "Stopping"

\* Server::update_status: record the status the collaborator reports; the
\* result says whether it differs from the recorded one
UpdateStatusChanged(d, e) == d.status # e
UpdateStatusData(d, e) == [d EXCEPT !.status = e]

\* query_status(id) makes progress on its own: a starting process comes up,
\* a stopping one goes down
ExtNext(e) ==
    CASE e = "Starting" -> "Running"
      [] e = "Stopping" -> "Stopped"
      [] OTHER -> e

----------------------------------------------------------------------------
\* run_command.  The result: the response, whether the call panicked, and
\* the servers, external statuses and poison flag it leaves behind.

Outcome(res, panic, srv, e, p) ==
    [res |-> res, panic |-> panic, servers |-> srv, ext |-> e, poisoned |-> p]

\* Command::StartServer(id) => { let mut lock = state.write()?;
\*                               lock.servers[id].start() }
StartArm(id, c, srv, e, p) ==
    IF p THEN Outcome(ErrorMsg("Poisoned", c), FALSE, srv, e, p)
    ELSE IF ~InBounds(srv, id) THEN Outcome(NoMsg, TRUE, srv, e, TRUE)
    ELSE LET d == ServerStart(At(srv, id))
             e2 == IF At(srv, id).status = "Running" THEN e
                   ELSE [e EXCEPT ![id + 1] = BeginStart(e[id + 1])]
         IN  Outcome(UpdateServerMsg(d.id, d, c), FALSE, Put(srv, id, d), e2, p)

\* Command::StopServer(id) => { let mut lock = state.write()?;
\*                              lock.servers[id].stop() }
\* mined returns UpdateServer(id, server.data.clone()) itself.
StopArm(id, c, srv, e, p) ==
    IF p THEN Outcome(ErrorMsg("Poisoned", c), FALSE, srv, e, p)
    ELSE IF ~InBounds(srv, id) THEN Outcome(NoMsg, TRUE, srv, e, TRUE)
    ELSE LET d == ServerStop(At(srv, id))
             e2 == IF At(srv, id).status = "Stopped" THEN e
                   ELSE [e EXCEPT ![id + 1] = BeginStop(e[id + 1])]
         IN  Outcome(UpdateServerMsg(id, d, c), FALSE, Put(srv, id, d), e2, p)

\* Command::GetServers => { let lock = state.read()?; ... }
ListArm(c, srv, e, p) ==
    IF p THEN Outcome(ErrorMsg("Poisoned", c), FALSE, srv, e, p)
    ELSE Outcome(UpdateServersMsg(Snapshot(srv), c), FALSE, srv, e, p)

\* run_command resolving the id modulo the number of servers instead of
\* indexing with it as given
barista_run_command_wrapping(cmd, c, srv, e, p) ==
    CASE cmd.type = "GetServers" -> ListArm(c, srv, e, p)
      [] cmd.type = "StartServer" -> StartArm(cmd.id % Len(srv), c, srv, e, p)
      [] cmd.type = "StopServer" -> StopArm(cmd.id % Len(srv), c, srv, e, p)

barista_run_command(cmd, c, srv, e, p) ==
    CASE cmd.type = "GetServers" -> ListArm(c, srv, e, p)
      [] cmd.type = "StartServer" -> StartArm(cmd.id, c, srv, e, p)
      [] cmd.type = "StopServer" -> StopArm(cmd.id, c, srv, e, p)

mined_run_command(cmd, c, srv, e, p) ==
    CASE cmd.type = "GetServers" -> ListArm(c, srv, e, p)
      [] cmd.type = "StartServer" -> StartArm(cmd.id, c, srv, e, p)
      [] cmd.type = "StopServer" -> StopArm(cmd.id, c, srv, e, p)

\* serve_ws: Err(NotBinary) for a non-binary frame, Err(ParseError) for one
\* that does not decode, else the command's response
serve_ws_error(f) ==
    CASE f.kind = "text" -> "NotBinary"
      [] f.kind = "garbage" -> "ParseError"
      [] OTHER -> ""

----------------------------------------------------------------------------
\* Helpers for the loops over the subscriber collection.

\* position of the first subscriber whose send fails (Len + 1: none);
\* `failing` is the set of subscribers a send to which fails
FirstFailing(cl, failing) ==
    IF \E i \in 1..Len(cl) : cl[i] \in failing
    THEN CHOOSE i \in 1..Len(cl) :
             cl[i] \in failing /\ \A j \in 1..(i - 1) : cl[j] \notin failing
    ELSE Len(cl) + 1

\* the subscribers the loop reaches with a successful send
Reached(cl, failing) == {cl[i] : i \in 1..(FirstFailing(cl, failing) - 1)}

Registered == {clients[i] : i \in 1..Len(clients)}

\* connections are accepted in order
NextConn(c) == conn[c] = "Idle" /\ \A d \in Conns : d < c => conn[d] # "Idle"

----------------------------------------------------------------------------
Init ==
    /\ variant \in {"barista", "mined"}
    /\ servers = StateNew
    /\ ext = [i \in 1..N |-> "Stopped"]
    /\ poisoned = FALSE
    /\ clients = <<>>
    /\ queue = <<>>
    /\ chan = [c \in Conns |-> <<>>]
    /\ fwd = [c \in Conns |-> "none"]
    /\ conn = [c \in Conns |-> "Idle"]
    /\ sock = [c \in Conns |-> FALSE]
    /\ pending = [c \in Conns |-> NoPending]
    /\ hubpos = 0
    /\ got = [c \in Conns |-> NoMsg]
    /\ rcvd = [c \in Conns |-> <<>>]
    /\ seen = [c \in Conns |-> <<>>]
    /\ hub = "running"
    /\ poller = "running"
    /\ lock = "free"
    /\ step = NoStep
    /\ frames = 0

----------------------------------------------------------------------------
\* barista-daemon: handle_ws

\* on_upgrade: split the socket, spawn the forwarder, register the sender.
\* state.write().unwrap() panics on a poisoned lock before the push.
barista_handle_ws_connect(c) ==
    /\ variant = "barista"
    /\ NextConn(c)
    /\ lock = "free"
    /\ IF poisoned
       THEN /\ conn' = [conn EXCEPT ![c] = "Panicked"]
            /\ fwd' = [fwd EXCEPT ![c] = "done"]
            /\ UNCHANGED <<clients, sock, seen>>
       ELSE /\ conn' = [conn EXCEPT ![c] = "Active"]
            /\ fwd' = [fwd EXCEPT ![c] = "running"]
            /\ sock' = [sock EXCEPT ![c] = TRUE]
            /\ clients' = Append(clients, c)
            /\ seen' = [seen EXCEPT ![c] = queue]
    /\ step' = Step("connect", c, GetServers, NoMsg, poisoned)
    /\ UNCHANGED <<frames, variant, rcvd, lock, pending, hubpos, servers, ext, poisoned, queue, chan, got, hub, poller>>

\* a handler that ends its loop on a frame serve_ws rejects
barista_discard_closing(c, f) ==
    /\ step' = Step(serve_ws_error(f), c, f.cmd, NoMsg, FALSE)
    /\ conn' = [conn EXCEPT ![c] = "Closed"]
    /\ UNCHANGED <<servers, ext, poisoned, chan>>

\* Err(NotBinary) => trace!, any other Err => error!; then `continue`
barista_discard(c, f) ==
    /\ step' = Step(serve_ws_error(f), c, f.cmd, NoMsg, FALSE)
    /\ UNCHANGED <<servers, ext, poisoned, chan, conn>>

\* one iteration of the while-let loop on Some(Ok(msg)), up to the return of
\* serve_ws: the lock is released when run_command returns.  ws_rx.next()
\* hands over frames already received whether or not the sink still works.
barista_handle_ws_frame(c, f) ==
    /\ variant = "barista"
    /\ conn[c] = "Active"
    /\ pending[c] = NoPending
    /\ frames < MaxFrames
    /\ frames' = frames + 1
    /\ IF serve_ws_error(f) # ""
       THEN barista_discard(c, f) /\ UNCHANGED pending
       ELSE LET r == barista_run_command(f.cmd, c, servers, ext, poisoned) IN
            /\ lock = "free"
            /\ servers' = r.servers
            /\ ext' = r.ext
            /\ poisoned' = r.poisoned
            /\ IF r.panic
               THEN \* the index panics inside run_command
                    /\ conn' = [conn EXCEPT ![c] = "Panicked"]
                    /\ step' = Step("command", c, f.cmd, NoMsg, TRUE)
                    /\ UNCHANGED pending
               ELSE /\ pending' = [pending EXCEPT ![c] = Pending(f.cmd, r.res)]
                    /\ step' = Step("command", c, f.cmd, r.res, FALSE)
                    /\ UNCHANGED conn
            /\ UNCHANGED chan
    /\ UNCHANGED <<variant, rcvd, seen, lock, hubpos, clients, queue, fwd, sock, got, hub,
                   poller>>

\* tx.send(Ok(response)).unwrap(): no lock is held; the send fails, and the
\* unwrap panics, once the forwarder has dropped the receiver
barista_handle_ws_reply(c) ==
    /\ variant = "barista"
    /\ conn[c] = "Active"
    /\ pending[c] # NoPending
    /\ pending' = [pending EXCEPT ![c] = NoPending]
    /\ IF fwd[c] # "running"
       THEN /\ conn' = [conn EXCEPT ![c] = "Panicked"]
            /\ step' = Step("reply", c, pending[c].cmd, pending[c].res, TRUE)
            /\ UNCHANGED chan
       ELSE /\ chan' = [chan EXCEPT ![c] = Append(@, pending[c].res)]
            /\ step' = Step("reply", c, pending[c].cmd, pending[c].res, FALSE)
            /\ UNCHANGED conn
    /\ UNCHANGED <<frames, variant, rcvd, seen, lock, hubpos, servers, ext, poisoned,
                   clients, queue, fwd, sock, got, hub, poller>>

\* Some(Err(e)) => return (the sink stays with the forwarder and the peer may
\* still be there); None => the peer has closed and the loop ends.  Nothing
\* is removed from state.clients.
barista_handle_ws_end(c, how) ==
    /\ variant = "barista"
    /\ conn[c] = "Active"
    /\ pending[c] = NoPending
    /\ conn' = [conn EXCEPT ![c] = "Closed"]
    /\ sock' = IF how = "close" THEN [sock EXCEPT ![c] = FALSE] ELSE sock
    /\ step' = Step(how, c, GetServers, NoMsg, FALSE)
    /\ UNCHANGED <<frames, variant, rcvd, seen, lock, pending, hubpos, servers, ext,
                   poisoned, clients, queue, chan, fwd, got, hub, poller>>

\* rx.forward(ws_tx): move one message from the channel to the socket; a
\* failed write ends the task and drops the receiver
barista_forward(c) ==
    /\ variant = "barista"
    /\ fwd[c] = "running"
    /\ chan[c] # <<>>
    /\ IF sock[c]
       THEN /\ got' = [got EXCEPT ![c] = Head(chan[c])]
            /\ rcvd' = [rcvd EXCEPT ![c] =
                          IF Head(chan[c]).origin = 0
                          THEN Append(@, Head(chan[c])) ELSE @]
            /\ chan' = [chan EXCEPT ![c] = Tail(@)]
            /\ UNCHANGED fwd
       ELSE /\ fwd' = [fwd EXCEPT ![c] = "done"]
            /\ chan' = [chan EXCEPT ![c] = <<>>]
            /\ UNCHANGED <<got, rcvd>>
    /\ step' = Step("forward", c, GetServers, Head(chan[c]), FALSE)
    /\ UNCHANGED <<frames, variant, seen, lock, pending, hubpos, servers, ext, poisoned, clients, queue, conn, sock,
                   hub, poller>>

----------------------------------------------------------------------------
\* barista-daemon: update_servers (the poller) and update_clients (the hub)

\* the servers after `for server in lock.servers.iter_mut()`
PollServers(srv, e) == [i \in DOMAIN srv |-> UpdateStatusData(srv[i], e[i])]

\* the loop cloning server.data before calling update_status()
RECURSIVE PollEvents_stale(_, _, _)
PollEvents_stale(srv, e, i) ==
    IF i > Len(srv) THEN <<>>
    ELSE (IF UpdateStatusChanged(srv[i], e[i])
          THEN <<UpdateServerMsg(srv[i].id, srv[i], 0)>>
          ELSE <<>>) \o PollEvents_stale(srv, e, i + 1)

\* the messages the loop sends, in index order: one UpdateServer(data.id, data)
\* per server whose update_status() returned true
RECURSIVE PollEvents(_, _, _)
PollEvents(srv, e, i) ==
    IF i > Len(srv) THEN <<>>
    ELSE (IF UpdateStatusChanged(srv[i], e[i])
          THEN <<UpdateServerMsg(srv[i].id, UpdateStatusData(srv[i], e[i]), 0)>>
          ELSE <<>>) \o PollEvents(srv, e, i + 1)

\* update_servers, first half of a tick: delay_for(duration) has elapsed and
\* state.write().unwrap() takes the write lock, or panics on a poisoned lock
update_servers_lock ==
    /\ variant = "barista"
    /\ poller = "running"
    /\ lock = "free"
    /\ IF poisoned
       THEN /\ poller' = "panicked"
            /\ step' = Step("poll", 0, GetServers, NoMsg, TRUE)
            /\ UNCHANGED lock
       ELSE /\ poller' = "locked"
            /\ lock' = "poller"
            /\ step' = Step("poll_lock", 0, GetServers, NoMsg, FALSE)
    /\ UNCHANGED <<frames, variant, rcvd, seen, pending, hubpos, servers, ext, poisoned, clients, queue,
                   chan, fwd, conn, sock, got, hub>>

\* update_servers sending on a channel that holds at most one message
update_servers_bounded ==
    /\ variant = "barista"
    /\ poller = "locked"
    /\ Len(queue) + Len(PollEvents(servers, ext, 1)) <= 1
    /\ servers' = PollServers(servers, ext)
    /\ queue' = queue \o PollEvents(servers, ext, 1)
    /\ seen' = [c \in Conns |->
                  IF c \in Registered
                  THEN seen[c] \o PollEvents(servers, ext, 1)
                  ELSE seen[c]]
    /\ poller' = "running"
    /\ lock' = "free"
    /\ step' = Step("poll", 0, GetServers, NoMsg, FALSE)
    /\ UNCHANGED <<frames, variant, rcvd, pending, hubpos, ext, poisoned, clients, chan, fwd, conn, sock, got, hub>>

\* update_servers keeping the write guard alive over delay_for(..).await
update_servers_guard_kept ==
    /\ variant = "barista"
    /\ poller = "locked"
    /\ servers' = PollServers(servers, ext)
    /\ IF hub = "running"
       THEN /\ queue' = queue \o PollEvents(servers, ext, 1)
            /\ seen' = [c \in Conns |->
                          IF c \in Registered
                          THEN seen[c] \o PollEvents(servers, ext, 1)
                          ELSE seen[c]]
       ELSE UNCHANGED <<queue, seen>>
    /\ poller' = "running"
    /\ step' = Step("poll", 0, GetServers, NoMsg, FALSE)
    /\ UNCHANGED <<frames, variant, rcvd, lock, pending, hubpos, ext, poisoned, clients, chan, fwd, conn, sock,
                   got, hub>>

\* update_servers, second half of a tick: the loop over lock.servers under
\* the write guard; tx.send(msg) fails, and is only logged, once the hub's
\* receiver is gone.  The guard is dropped at the end of the loop body,
\* before the next delay_for(..).await.
update_servers ==
    /\ variant = "barista"
    /\ poller = "locked"
    /\ servers' = PollServers(servers, ext)
    /\ IF hub = "running"
       THEN /\ queue' = queue \o PollEvents(servers, ext, 1)
            /\ seen' = [c \in Conns |->
                          IF c \in Registered
                          THEN seen[c] \o PollEvents(servers, ext, 1)
                          ELSE seen[c]]
       ELSE UNCHANGED <<queue, seen>>
    /\ poller' = "running"
    /\ lock' = "free"
    /\ step' = Step("poll", 0, GetServers, NoMsg, FALSE)
    /\ UNCHANGED <<frames, variant, rcvd, pending, hubpos, ext, poisoned, clients, chan, fwd, conn, sock, got, hub>>

\* client.send(..) fails when the connection's receiver was dropped
BaristaSendFails(c) == fwd[c] # "running"

\* one received message: state.read().unwrap(), then client.send(..).unwrap()
\* for each client in order.  A panic ends the task and drops the queue.
update_clients ==
    /\ variant = "barista"
    /\ hub = "running"
    /\ queue # <<>>
    /\ lock = "free"
    /\ LET msg == Head(queue)
           failing == {c \in Conns : BaristaSendFails(c)}
           k == FirstFailing(clients, failing)
           reached == Reached(clients, failing)
       IN  IF poisoned
           THEN /\ hub' = "panicked"
                /\ queue' = <<>>
                /\ step' = Step("broadcast", 0, GetServers, msg, TRUE)
                /\ UNCHANGED chan
           ELSE /\ chan' = [c \in Conns |->
                              IF c \in reached THEN Append(chan[c], msg) ELSE chan[c]]
                /\ IF k <= Len(clients)
                   THEN /\ hub' = "panicked"
                        /\ queue' = <<>>
                        /\ step' = Step("broadcast", 0, GetServers, msg, TRUE)
                   ELSE /\ queue' = Tail(queue)
                        /\ step' = Step("broadcast", 0, GetServers, msg, FALSE)
                        /\ UNCHANGED hub
    /\ UNCHANGED <<frames, variant, rcvd, seen, lock, pending, hubpos, servers, ext, poisoned, clients, fwd, conn, sock,
                   got, poller>>

----------------------------------------------------------------------------
\* The environment.

\* the external process of server i completes its transition
ExtProgress(i) ==
    /\ ExtNext(ext[i]) # ext[i]
    /\ ext' = [ext EXCEPT ![i] = ExtNext(@)]
    /\ step' = Step("ext", 0, GetServers, NoMsg, FALSE)
    /\ UNCHANGED <<frames, variant, rcvd, seen, lock, pending, hubpos, servers, poisoned, clients, queue, chan, fwd, conn,
                   sock, got, hub, poller>>

\* the peer of an accepted connection goes away: writes to its sink fail
\* from now on, whatever its handler is doing
PeerGone(c) ==
    /\ conn[c] # "Idle"
    /\ sock[c]
    /\ sock' = [sock EXCEPT ![c] = FALSE]
    /\ step' = Step("peer_gone", c, GetServers, NoMsg, FALSE)
    /\ UNCHANGED <<frames, variant, rcvd, seen, lock, pending, hubpos, servers, ext,
                   poisoned, clients, queue, chan, fwd, conn, got, hub, poller>>

----------------------------------------------------------------------------
\* mined: handle_ws and the hub task of server_init

\* lock.tx.send(m).ok(): the message is lost once the hub's receiver is gone
MinedSend(q, m) == IF hub = "running" THEN Append(q, m) ELSE q

\* on_upgrade: state.lock().unwrap(), then send NewClient(sink) to the hub
mined_handle_ws_connect(c) ==
    /\ variant = "mined"
    /\ NextConn(c)
    /\ IF poisoned
       THEN /\ conn' = [conn EXCEPT ![c] = "Panicked"]
            /\ UNCHANGED <<queue, sock>>
       ELSE /\ conn' = [conn EXCEPT ![c] = "Active"]
            /\ sock' = [sock EXCEPT ![c] = TRUE]
            /\ queue' = MinedSend(queue, NewClient(c))
    /\ step' = Step("connect", c, GetServers, NoMsg, poisoned)
    /\ UNCHANGED <<frames, variant, rcvd, seen, lock, pending, hubpos, servers, ext, poisoned, clients, chan, fwd, got,
                   hub, poller>>

\* Err(NotBinary) => trace!, Err(e) => error!; the loop goes on
mined_discard(c, f) ==
    /\ step' = Step(serve_ws_error(f), c, f.cmd, NoMsg, FALSE)
    /\ UNCHANGED <<servers, ext, poisoned, queue, conn>>

\* one iteration of the loop on Some(Ok(msg)), up to the return of serve_ws:
\* the mutex is released when run_command returns.  rx.next() hands over
\* frames already received whether or not the sink still works.
mined_handle_ws_frame(c, f) ==
    /\ variant = "mined"
    /\ conn[c] = "Active"
    /\ pending[c] = NoPending
    /\ frames < MaxFrames
    /\ frames' = frames + 1
    /\ IF serve_ws_error(f) # ""
       THEN mined_discard(c, f) /\ UNCHANGED pending
       ELSE LET r == mined_run_command(f.cmd, c, servers, ext, poisoned) IN
            /\ servers' = r.servers
            /\ ext' = r.ext
            /\ poisoned' = r.poisoned
            /\ IF r.panic
               THEN /\ conn' = [conn EXCEPT ![c] = "Panicked"]
                    /\ step' = Step("command", c, f.cmd, NoMsg, TRUE)
                    /\ UNCHANGED pending
               ELSE /\ pending' = [pending EXCEPT ![c] = Pending(f.cmd, r.res)]
                    /\ step' = Step("command", c, f.cmd, r.res, FALSE)
                    /\ UNCHANGED conn
            /\ UNCHANGED queue
    /\ UNCHANGED <<variant, rcvd, seen, lock, hubpos, clients, chan, fwd, sock, got, hub,
                   poller>>

\* Ok(m) => { let lock = state.lock().unwrap(); lock.tx.send(Msg(m)).ok(); }
\* the mutex is taken a second time; the unwrap panics if it is poisoned by
\* now
mined_handle_ws_reply(c) ==
    /\ variant = "mined"
    /\ conn[c] = "Active"
    /\ pending[c] # NoPending
    /\ pending' = [pending EXCEPT ![c] = NoPending]
    /\ IF poisoned
       THEN /\ conn' = [conn EXCEPT ![c] = "Panicked"]
            /\ step' = Step("reply", c, pending[c].cmd, pending[c].res, TRUE)
            /\ UNCHANGED queue
       ELSE /\ queue' = MinedSend(queue, pending[c].res)
            /\ step' = Step("reply", c, pending[c].cmd, pending[c].res, FALSE)
            /\ UNCHANGED conn
    /\ UNCHANGED <<frames, variant, rcvd, seen, lock, hubpos, servers, ext, poisoned,
                   clients, chan, fwd, sock, got, hub, poller>>

\* Some(Err(e)) => error!(..): nothing changes and the loop goes on reading
mined_handle_ws_read_error(c) ==
    /\ variant = "mined"
    /\ conn[c] = "Active"
    /\ pending[c] = NoPending
    /\ step' = Step("read_error", c, GetServers, NoMsg, FALSE)
    /\ UNCHANGED <<frames, variant, rcvd, seen, lock, pending, hubpos, servers, ext,
                   poisoned, clients, queue, chan, fwd, conn, sock, got, hub, poller>>

\* None => break: the peer has closed.  The sink stays in the hub's list.
mined_handle_ws_end(c) ==
    /\ variant = "mined"
    /\ conn[c] = "Active"
    /\ pending[c] = NoPending
    /\ conn' = [conn EXCEPT ![c] = "Closed"]
    /\ sock' = [sock EXCEPT ![c] = FALSE]
    /\ step' = Step("close", c, GetServers, NoMsg, FALSE)
    /\ UNCHANGED <<frames, variant, rcvd, seen, lock, pending, hubpos, servers, ext,
                   poisoned, clients, queue, chan, fwd, got, hub, poller>>

\* c.send(msg).await fails on a closed socket
MinedSendFails(c) == ~sock[c]

\* the hub task: rx.recv().await returns a RuntimeMsg.  NewClient pushes the
\* sink; Msg starts the loop over `clients`.  The message being sent stays
\* at the head of `queue` until the loop is over.
mined_hub ==
    /\ variant = "mined"
    /\ hub = "running"
    /\ hubpos = 0
    /\ queue # <<>>
    /\ LET msg == Head(queue) IN
       IF msg.type = "NewClient"
       THEN /\ clients' = Append(clients, msg.id)
            /\ queue' = Tail(queue)
            /\ step' = Step("register", msg.id, GetServers, msg, FALSE)
            /\ UNCHANGED hubpos
       ELSE IF clients = <<>>
       THEN /\ queue' = Tail(queue)
            /\ step' = Step("broadcast", 0, GetServers, msg, FALSE)
            /\ UNCHANGED <<clients, hubpos>>
       ELSE /\ hubpos' = 1
            /\ step' = Step("recv", 0, GetServers, msg, FALSE)
            /\ UNCHANGED <<clients, queue>>
    /\ UNCHANGED <<frames, variant, rcvd, seen, lock, pending, servers, ext, poisoned,
                   chan, fwd, conn, sock, got, hub, poller>>

\* one c.send(msg.clone()).await.unwrap() of the loop: a failed send panics
\* the task and drops the queue; after the last sink the task is back at
\* rx.recv()
mined_hub_send ==
    /\ variant = "mined"
    /\ hub = "running"
    /\ hubpos > 0
    /\ LET msg == Head(queue)
           c == clients[hubpos]
       IN  IF MinedSendFails(c)
           THEN /\ hub' = "panicked"
                /\ queue' = <<>>
                /\ hubpos' = 0
                /\ step' = Step("broadcast", 0, GetServers, msg, TRUE)
                /\ UNCHANGED got
           ELSE /\ got' = [got EXCEPT ![c] = msg]
                /\ IF hubpos = Len(clients)
                   THEN /\ hubpos' = 0
                        /\ queue' = Tail(queue)
                        /\ step' = Step("broadcast", 0, GetServers, msg, FALSE)
                   ELSE /\ hubpos' = hubpos + 1
                        /\ step' = Step("send", c, GetServers, msg, FALSE)
                        /\ UNCHANGED queue
                /\ UNCHANGED hub
    /\ UNCHANGED <<frames, variant, rcvd, seen, lock, pending, servers, ext, poisoned,
                   clients, chan, fwd, conn, sock, poller>>

----------------------------------------------------------------------------
Next ==
    \/ \E c \in Conns : barista_handle_ws_connect(c)
    \/ \E c \in Conns, f \in Frames : barista_handle_ws_frame(c, f)
    \/ \E c \in Conns : barista_handle_ws_reply(c)
    \/ \E c \in Conns, how \in {"read_error", "close"} : barista_handle_ws_end(c, how)
    \/ \E c \in Conns : barista_forward(c)
    \/ update_servers_lock
    \/ update_servers
    \/ update_clients
    \/ \E i \in 1..N : ExtProgress(i)
    \/ \E c \in Conns : PeerGone(c)
    \/ \E c \in Conns : mined_handle_ws_connect(c)
    \/ \E c \in Conns, f \in Frames : mined_handle_ws_frame(c, f)
    \/ \E c \in Conns : mined_handle_ws_reply(c)
    \/ \E c \in Conns : mined_handle_ws_read_error(c)
    \/ \E c \in Conns : mined_handle_ws_end(c)
    \/ mined_hub
    \/ mined_hub_send

Spec == Init /\ [][Next]_vars

\* the poller, the hub, the forwarders, a handler that has a response to
\* send and the external processes are scheduled fairly by the runtime;
\* inbound frames and disconnects are not, and neither is a send of mined's
\* hub, which waits until the peer's socket takes the message
Fairness ==
    /\ WF_vars(update_servers_lock)
    /\ WF_vars(update_servers)
    /\ SF_vars(update_clients)
    /\ WF_vars(mined_hub)
    /\ \A c \in Conns : WF_vars(barista_forward(c))
    /\ \A c \in Conns : WF_vars(barista_handle_ws_reply(c))
    /\ \A c \in Conns : WF_vars(mined_handle_ws_reply(c))
    /\ \A i \in 1..N : WF_vars(ExtProgress(i))

FairSpec == Spec /\ Fairness

----------------------------------------------------------------------------
\* Vocabulary of the properties.

\* the last step ran a StartServer / StopServer command
IsCommand(st, type) == st.op = "command" /\ st.cmd.type = type
BadId(st) == st.cmd.id \notin ServerIds

\* the observer of connection c is connected
Connected(c) == sock[c]

\* a send to subscriber c fails
SendFails(c) ==
    IF variant = "barista" THEN BaristaSendFails(c) ELSE MinedSendFails(c)

\* the last broadcast handed message m to subscriber c
Delivered(c, m) ==
    IF variant = "barista"
    THEN chan[c] # <<>> /\ chan[c][Len(chan[c])] = m
    ELSE got[c] = m

----------------------------------------------------------------------------
\* C1: for every id outside 0..N-1, StartServer(id) and StopServer(id)
\* answer Error(ResourceNotFound) and the handler does not panic.
C1_BadIdIsTypedError ==
    ((IsCommand(step, "StartServer") \/ IsCommand(step, "StopServer"))
        /\ BadId(step))
    => (~step.panic /\ step.res = ErrorMsg("ResourceNotFound", step.c))

\* C2: after a broadcast attempt the broadcast has not failed, no closed
\* connection is left in the hub's collection, and the collection is no
\* larger than the number of open connections.
C2_ClosedSubscriberPruned ==
    step.op = "broadcast"
    => (/\ ~step.panic
        /\ \A c \in Registered : conn[c] # "Closed"
        /\ Len(clients) <= Cardinality({c \in Conns : Connected(c)}))

\* C3: a broadcast dispatched while some registered subscriber's channel is
\* closed still reaches every other registered subscriber and leaves the hub
\* running.
C3_FailureIsolated ==
    (step.op = "broadcast" /\ \E c \in Registered : SendFails(c))
    => (hub = "running"
        /\ \A d \in Registered : ~SendFails(d) => Delivered(d, step.res))

\* C4: a ResourceList reply (UpdateServers) is received only by the observer
\* whose ListResources command produced it.
C4_ReplyOnlyToSender ==
    \A c \in Conns : got[c].type = "UpdateServers" => got[c].origin = c

\* C5: a broadcast of a poller event appends the event exactly once to the
\* channel of every registered, connected observer and to no unregistered
\* one.
C5_FanOut ==
    [][(variant = "barista" /\ step'.op = "broadcast" /\ hub = "running"
          /\ queue # <<>> /\ queue' # queue)
       => \A c \in Conns :
            /\ (c \in Registered /\ Connected(c))
                  => chan'[c] = Append(chan[c], Head(queue))
            /\ c \notin Registered => chan'[c] = chan[c]]_vars

\* C6: StopServer(id) with an id outside 0..N-1 leaves the servers, their
\* statuses and data and the length of the sequence as they were.
C6_BadStopLeavesRegistry ==
    [][(IsCommand(step', "StopServer") /\ BadId(step') /\ frames' # frames)
       => (servers' = servers /\ Len(servers') = N /\ ext' = ext)]_vars

\* C6 witness: StopServer(N + 2) has just been handled on a registry that
\* an earlier command had changed.
C6_Witness ==
    /\ IsCommand(step, "StopServer")
    /\ step.cmd.id = N + 2
    /\ servers # StateNew

\* C7: a connection whose handler has ended (read error or close) is not in
\* the hub's collection.
C7_ClosedIsUnregistered ==
    \A c \in Conns : conn[c] = "Closed" => c \notin Registered

\* the response of a StartServer that found the server Running, or of a
\* StopServer that found it Stopped (neither command produces that status)
NoOpReply(st) ==
    /\ st.res.type = "UpdateServer"
    /\ \/ st.cmd.type = "StartServer" /\ st.res.data[1].status = "Running"
       \/ st.cmd.type = "StopServer" /\ st.res.data[1].status = "Stopped"

\* C8: StartServer on a Running server and StopServer on a Stopped server
\* answer the current snapshot, leave the registry as it was and hand no
\* event to the hub, neither when the command runs nor when its response
\* is sent.
C8_Idempotent ==
    [][/\ (/\ frames' # frames
           /\ ~BadId(step')
           /\ \/ IsCommand(step', "StartServer")
                    /\ At(servers, step'.cmd.id).status = "Running"
              \/ IsCommand(step', "StopServer")
                    /\ At(servers, step'.cmd.id).status = "Stopped")
          => (/\ step'.res = UpdateServerMsg(step'.cmd.id,
                                          At(servers, step'.cmd.id), step'.c)
           /\ servers' = servers
           /\ queue' = queue)
       /\ (step'.op = "reply" /\ pending' # pending /\ NoOpReply(step'))
          => queue' = queue]_vars

\* C9: StartServer on a Stopped server (StopServer on a Running one) with a
\* valid id sets the status to Starting (Stopping) and answers
\* UpdateServer(id, snapshot) with that id and that status.
C9_TransitionalStatus ==
    [][(/\ frames' # frames
        /\ ~BadId(step')
        /\ \/ IsCommand(step', "StartServer")
                 /\ At(servers, step'.cmd.id).status = "Stopped"
           \/ IsCommand(step', "StopServer")
                 /\ At(servers, step'.cmd.id).status = "Running")
       => LET id == step'.cmd.id
              new == IF step'.cmd.type = "StartServer" THEN "Starting"
                     ELSE "Stopping"
          IN  /\ At(servers', id).status = new
              /\ step'.res = UpdateServerMsg(id, ServerData(id, new), step'.c)]_vars

\* C10: once the collaborator reports server 1 Running while the registry
\* holds Starting, every connected observer eventually receives
\* UpdateServer(1, Running), unless it disconnects or server 1 is stopped
\* again first.
RunningEvent == UpdateServerMsg(1, ServerData(1, "Running"), 0)

C10_RunningPropagates ==
    \A c \in Conns :
        (At(servers, 1).status = "Starting" /\ ext[2] = "Running"
            /\ Connected(c) /\ c \in Registered)
        ~> (got[c] = RunningEvent \/ ~Connected(c) \/ ext[2] # "Running")

----------------------------------------------------------------------------
\* the messages a step added at the end of a queue or channel
Added(before, after) == SubSeq(after, Len(before) + 1, Len(after))

\* message m is UpdateServer(id, data) with the data the registry srv holds
\* for id
MatchesRegistry(m, srv) ==
    m.type = "UpdateServer"
    => (InBounds(srv, m.id) /\ m.data = <<At(srv, m.id)>>)

\* C11: every UpdateServer message is produced (pushed by the poller,
\* answered by a command) carrying the data the registry holds for that
\* server at the end of the step that wrote it, and is handed on unchanged
\* from the handler to the channel or hub queue and on to the observers.
C11_EventMatchesRegistry ==
    [][/\ \A k \in 1..Len(Added(queue, queue')) :
             (Len(queue') >= Len(queue) /\ step'.op = "poll")
             => MatchesRegistry(Added(queue, queue')[k], servers')
       /\ (step'.op = "command" /\ frames' # frames)
             => /\ MatchesRegistry(step'.res, servers')
                /\ ~step'.panic => pending'[step'.c].res = step'.res
       /\ \A c \in Conns :
             /\ (chan'[c] # chan[c] /\ step'.op = "reply")
                   => chan'[c] = Append(chan[c], pending[c].res)
             /\ (queue' # queue /\ step'.op = "reply" /\ step'.c = c)
                   => queue' = Append(queue, pending[c].res)
             /\ (got'[c] # got[c])
                   => \/ chan[c] # <<>> /\ got'[c] = Head(chan[c])
                      \/ queue # <<>> /\ got'[c] = Head(queue)]_vars

\* C11 witness: an observer has received a poller event
C11_Witness ==
    \E c \in Conns : got[c].type = "UpdateServer" /\ got[c].origin = 0

\* C12: a text frame or an undecodable binary frame changes nothing but
\* the record of the last step: the handler stays in its loop, no reply or
\* event is produced and the registry is as before.
C12_BadFrameDiscarded ==
    [][(step'.op \in {"NotBinary", "ParseError"} /\ frames' # frames)
       => (/\ conn' = conn
           /\ conn'[step'.c] = "Active"
           /\ UNCHANGED <<servers, ext, poisoned, clients, queue, chan, fwd,
                          sock, got, rcvd, seen, hub, poller, lock, pending,
                          hubpos>>)]_vars

\* C12 witness: a frame was discarded after an earlier command had changed
\* the registry, and the handler is still in its loop
C12_Witness ==
    /\ step.op \in {"NotBinary", "ParseError"}
    /\ conn[step.c] = "Active"
    /\ servers # StateNew

\* C13: a command that finds the lock poisoned never ends in an Error
\* response with the daemon running on.
C13_PoisonIsFatal ==
    ~(step.op = "command" /\ step.res = ErrorMsg("Poisoned", step.c))

\* C14: a poller tick pushes UpdateServer(id, data) to the hub queue for
\* exactly the servers whose status it changed, and nothing else.
C14_EventIffChanged ==
    [][(step'.op = "poll" /\ ~step'.panic /\ Len(queue') >= Len(queue))
       => /\ \A i \in 1..N :
                (servers'[i].status # servers[i].status)
                <=> \E k \in 1..Len(Added(queue, queue')) :
                       Added(queue, queue')[k]
                          = UpdateServerMsg(i - 1, servers'[i], 0)
          /\ Len(Added(queue, queue'))
                = Cardinality({i \in 1..N :
                                  servers'[i].status # servers[i].status})]_vars

\* C17: the server sequence has exactly N entries and the entry at index i
\* has id i.
C17_RegistryShape ==
    /\ Len(servers) = N
    /\ \A i \in 1..N : servers[i].id = i - 1

\* C17 witness: commands and a poller tick have changed statuses
C17_Witness ==
    /\ step.op = "poll"
    /\ \E i \in 1..N : servers[i].status = "Running"
    /\ \E i \in 1..N : servers[i].status = "Starting"

\* C15: registering a subscriber does not wait for a task that holds
\* exclusive access to the registry: a connection that is being accepted
\* can always register.
C15_RegistrationIndependent ==
    \A c \in Conns :
        (variant = "barista" /\ NextConn(c))
        => ENABLED barista_handle_ws_connect(c)

\* C16: a live poller is never made to wait by the hub queue, the
\* subscribers or their channels: at its timer it can start a tick, and
\* inside a tick it can push its events and finish, whatever the queue and
\* the channels hold.
C16_PollerNeverBlocks ==
    /\ (variant = "barista" /\ poller = "running") => ENABLED update_servers_lock
    /\ (variant = "barista" /\ poller = "locked") => ENABLED update_servers

\* C16 witness: a tick has finished with two events waiting in the hub
\* queue and an observer's channel not yet drained
C16_Witness ==
    /\ step.op = "poll" /\ ~step.panic
    /\ hub = "running"
    /\ Len(queue) = 2
    /\ \E c \in Conns : chan[c] # <<>>

\* C18: the lock is held only by a task that is inside its critical
\* section, never by one waiting at a suspension point, and the holder can
\* always run on to release it.
C18_LockNotHeldAcrossAwait ==
    /\ lock = "poller" => poller = "locked"
    /\ lock # "free" => ENABLED update_servers

\* C18 witness: the poller holds the lock while the hub has a message to
\* dispatch and a handler is in its read loop
C18_Witness ==
    /\ lock = "poller"
    /\ queue # <<>>
    /\ \E c \in Conns : conn[c] = "Active"

\* C20: in barista-daemon the handler's tx.send(Ok(response)).unwrap() never
\* panics: whenever a handler has a reply to send, its forwarder is alive.
C20_ReplySendSucceeds ==
    ~(/\ variant = "barista"
      /\ step.op = "reply"
      /\ step.panic)

\* the poller events among the messages of a channel
Broadcasts(ch) == SelectSeq(ch, LAMBDA m : m.origin = 0)

\* C19: for every registered, connected observer of barista-daemon, the
\* poller events written to its socket, followed by those waiting in its
\* channel and in the hub queue, are the events the poller enqueued, in the
\* order it enqueued them; so every such observer is on the way to the same
\* sequence.
C19_PerObserverFifo ==
    \A c \in Conns :
        (variant = "barista" /\ c \in Registered /\ Connected(c))
        => rcvd[c] \o Broadcasts(chan[c]) \o queue = seen[c]

====
